---- MODULE Spec2Model ----
(***************************************************************************)
(* Model of the xv6 console driver (kernel/console.c): the circular input  *)
(* buffer cons.buf with its indices r, w, e, the interrupt handler         *)
(* consoleintr, the blocking consoleread, and consoleioctl.                *)
(*                                                                         *)
(* The indices are C uints.  Within the bounds below they stay far under   *)
(* 2^32, so uint arithmetic coincides with the arithmetic on naturals.     *)
(***************************************************************************)
EXTENDS Integers, Sequences, FiniteSets, TLC

(* ---------------------------- bounds ----------------------------------- *)
\* capacity of cons.buf (128 in the source)
BufSize == 2
\* capacity of cons.buf where a whole line is typed before it is read
LineSize == 10
\* number of processes that call consoleread
NumReaders == 2
\* largest byte count a consoleread call asks for
MaxN == 2
\* number of characters the uart delivers
MaxInput == 3
\* number of copies to a caller's buffer that may fail
MaxFaults == 1
\* number of processes that may be killed
MaxKills == 1

Procs == 1..NumReaders

(* --------------------------- characters -------------------------------- *)
BACKSPACE == 256
C(x) == x - 64
CtrlD == C(68)
CtrlH == C(72)
CtrlP == C(80)
CtrlU == C(85)
DEL == 127
NL == 10
CR == 13
BS == 8
SP == 32

ChA == 97
ChB == 98
ChC == 99
ChE == 101
ChH == 104
ChI == 105
ChL == 108
ChO == 111

ECHO == "ECHO"
ICANON == "ICANON"
Flags == {ECHO, ICANON}

TCGETA == "TCGETA"
TCSETA == "TCSETA"
Requests == {TCGETA, TCSETA, "OTHER"}
\* the termios values passed to TCSETA: raw without echo, canonical with echo
Modes == {{}, Flags}

(* ------------------------------ input ---------------------------------- *)
\* the characters the uart delivers
Chars == {0, ChA, NL, CR, CtrlD, CtrlP, CtrlU, DEL}

\* "ab<DEL>c\n"
FeedErase == <<ChA, ChB, DEL, ChC, NL>>
\* "hello<^U>hi\n"
FeedKill == <<ChH, ChE, ChL, ChL, ChO, CtrlU, ChH, ChI, NL>>

(* ------------------------------ state ---------------------------------- *)
VARIABLES
  buf,      \* cons.buf
  r,        \* cons.r, read index
  w,        \* cons.w, write index
  e,        \* cons.e, edit index
  lflag,    \* cons.termios.c_lflag, as the set of flags that are on
  lock,     \* holder of cons.lock: 0 when free, else the process
  pc,       \* where each process is in consoleread
  n,        \* consoleread's n
  target,   \* consoleread's target
  dst,      \* bytes copied to the caller's buffer by the call in progress
  killed,   \* myproc()->killed
  fed,      \* number of characters the uart has delivered
  typed,    \* the character consoleintr was called with in the step just taken
  uart,     \* what the step just taken sent to the uart
  dumped,   \* whether the step just taken called procdump
  accepted, \* history: bytes stored in cons.buf, in order
  popped,   \* history: bytes taken out of cons.buf, with what became of them
  last      \* the system call the step just taken returned from, and its result

vars == <<buf, r, w, e, lflag, lock, pc, n, target, dst, killed,
          fed, typed, uart, dumped, accepted, popped, last>>

consVars == <<buf, r, w, e>>
procVars == <<pc, n, target, dst, killed>>

\* a step that is not in consoleintr sends nothing to the uart
NoOutput == typed' = <<>> /\ uart' = <<>> /\ dumped' = FALSE

\* sizeof(cons.buf)
INPUT_BUF == Cardinality(DOMAIN buf)

\* call is "read", "ioctl" or "none"; a read records the count asked for
\* and the bytes copied out; an ioctl records the request, the flags
\* passed in and the flags copied out
NoCall == [call |-> "none", req |-> "", arg |-> {}, cnt |-> 0,
           ret |-> 0, out |-> <<>>, got |-> {}]
ReadResult(cnt, v, bytes) ==
  [NoCall EXCEPT !.call = "read", !.cnt = cnt, !.ret = v, !.out = bytes]
IoctlResult(req, arg, v, got) ==
  [NoCall EXCEPT !.call = "ioctl", !.req = req, !.arg = arg, !.ret = v,
                 !.got = got]

\* the state consoleinit leaves, for a buffer of the given capacity, once
\* a call that changes none of it has returned v
InitAfter(size, v) ==
  /\ buf = [i \in 0..(size - 1) |-> 0]
  /\ r = 0
  /\ w = 0
  /\ e = 0
  /\ lflag = {ECHO, ICANON}
  /\ lock = 0
  /\ pc = [p \in Procs |-> "idle"]
  /\ n = [p \in Procs |-> 0]
  /\ target = [p \in Procs |-> 0]
  /\ dst = [p \in Procs |-> <<>>]
  /\ killed = [p \in Procs |-> FALSE]
  /\ fed = 0
  /\ typed = <<>>
  /\ uart = <<>>
  /\ dumped = FALSE
  /\ accepted = <<>>
  /\ popped = <<>>
  /\ last = v

\* the state consoleinit leaves, for a buffer of the given capacity
InitWith(size) == InitAfter(size, NoCall)

Init == InitWith(BufSize)

(* ---------------------------- consputc --------------------------------- *)
consputc(c) == IF c = BACKSPACE THEN <<BS, SP, BS>> ELSE <<c>>

is_set(mask) == mask \in lflag

(* ---------------------------- consoleintr ------------------------------ *)
\* the while loop of the kill-line case: the edit index it ends with
RECURSIVE KillLine(_)
KillLine(ee) ==
  IF ee # w /\ buf[(ee - 1) % INPUT_BUF] # NL THEN KillLine(ee - 1) ELSE ee

\* the backspace case
EraseOne(ee) == IF ee # w THEN ee - 1 ELSE ee

\* the switch statement: the edit index after it
EditIndex(c) ==
  IF ~is_set(ICANON) THEN e
  ELSE IF c = CtrlU THEN KillLine(e)
  ELSE IF c = CtrlH \/ c = DEL THEN EraseOne(e)
  ELSE e

\* a buffer one byte too large
Accepts_TooMany(c, ee) == c # 0 /\ ee - r <= INPUT_BUF

\* the null character is stored like any other
Accepts_Null(c, ee) == ee - r < INPUT_BUF

\* the condition under which the character is stored
Accepts(c, ee) == c # 0 /\ ee - r < INPUT_BUF

\* the slot of cons.buf the character is stored in
WriteSlot(i) == i % INPUT_BUF

\* carriage return becomes newline
Normal(c) == IF c = CR THEN NL ELSE c

\* a visual erase per byte the switch removed
EraseOutput(k) == [i \in 1..(3 * k) |-> IF i % 3 = 2 THEN SP ELSE BS]

\* only a whole line is committed
CommitIndex_LineOnly(c, ee) ==
  IF c = NL \/ c = CtrlD \/ ee = r + INPUT_BUF \/ ~is_set(ICANON)
  THEN ee ELSE w

\* cons.w after the character was stored: both branches of the if assign
\* cons.e to it
CommitIndex(c, ee) ==
  IF c = NL \/ c = CtrlD \/ ee = r + INPUT_BUF \/ ~is_set(ICANON)
  THEN ee ELSE ee

\* only the first sleeper is made runnable
Wakeup_One(q) ==
  [p \in Procs |->
     IF q[p] = "sleep" /\ \A o \in Procs : o < p => q[o] # "sleep"
     THEN "woken" ELSE q[p]]

\* wakeup(&cons.r): every process sleeping on the channel becomes runnable
Wakeup(q) == [p \in Procs |-> IF q[p] = "sleep" THEN "woken" ELSE q[p]]

consoleintr(c) ==
  /\ lock = 0
  /\ LET e1 == EditIndex(c)
         c2 == Normal(c)
     IN /\ typed' = <<c>>
        /\ dumped' = (is_set(ICANON) /\ c = CtrlP)
        /\ IF Accepts(c, e1)
           THEN /\ uart' = EraseOutput(e - e1) \o
                           (IF is_set(ECHO) THEN consputc(c2) ELSE <<>>)
                /\ buf' = [buf EXCEPT ![WriteSlot(e1)] = c2]
                /\ e' = e1 + 1
                /\ w' = CommitIndex(c2, e1 + 1)
                /\ pc' = Wakeup(pc)
                /\ accepted' = Append(accepted, c2)
           ELSE /\ uart' = EraseOutput(e - e1)
                /\ e' = e1
                /\ UNCHANGED <<buf, w, pc, accepted>>
  /\ last' = NoCall
  /\ UNCHANGED <<r, lflag, lock, n, target, dst, killed, popped>>

\* the uart delivers a character
Intr ==
  /\ fed < MaxInput
  /\ fed' = fed + 1
  /\ \E c \in Chars : consoleintr(c)

\* the uart delivers the next character of a typed line
IntrLine(line) ==
  /\ fed < Len(line)
  /\ fed' = fed + 1
  /\ consoleintr(line[fed + 1])

(* ---------------------------- consoleread ------------------------------ *)
\* the call returns without release(&cons.lock)
Return_KeepsLock(p, v, bytes) ==
  /\ lock' = lock
  /\ pc' = [pc EXCEPT ![p] = "idle"]
  /\ n' = [n EXCEPT ![p] = 0]
  /\ target' = [target EXCEPT ![p] = 0]
  /\ dst' = [dst EXCEPT ![p] = <<>>]
  /\ last' = ReadResult(target[p], v, bytes)

\* release(&cons.lock); return v: the locals die with the call
Return(p, v, bytes) ==
  /\ lock' = 0
  /\ pc' = [pc EXCEPT ![p] = "idle"]
  /\ n' = [n EXCEPT ![p] = 0]
  /\ target' = [target EXCEPT ![p] = 0]
  /\ dst' = [dst EXCEPT ![p] = <<>>]
  /\ last' = ReadResult(target[p], v, bytes)

\* entry of consoleread up to the first test of the while loop
ReadCall(p, cnt) ==
  /\ pc[p] = "idle"
  /\ ~killed[p]
  /\ lock = 0
  /\ IF cnt > 0
     THEN /\ lock' = p
          /\ pc' = [pc EXCEPT ![p] = "run"]
          /\ target' = [target EXCEPT ![p] = cnt]
          /\ n' = [n EXCEPT ![p] = cnt]
          /\ last' = NoCall
          /\ dst' = dst
     ELSE /\ lock' = 0
          /\ last' = ReadResult(cnt, 0, <<>>)
          /\ UNCHANGED <<pc, target, n, dst>>
  /\ NoOutput
  /\ UNCHANGED <<consVars, lflag, killed, fed, accepted, popped>>

\* the index is advanced before the slot is computed
ReadSlot_PreIncrement(i) == (i + 1) % INPUT_BUF

\* the slot of cons.buf the next byte is taken from
ReadSlot(i) == i % INPUT_BUF

\* the end-of-file test on the byte just taken
IsEof(c) == c = CtrlD /\ is_set(ICANON)

\* the end-of-file byte is pushed back even when it is the first byte
EofIndex_AlwaysBack(p) == (r + 1) - 1

\* the end-of-file byte is never pushed back
EofIndex_NeverBack(p) == r + 1

\* the index after an end-of-file byte was taken: pushed back unless first
EofIndex(p) == IF n[p] < target[p] THEN (r + 1) - 1 ELSE r + 1

\* the end-of-line test after a byte was copied
IsEol(c) == c = NL /\ is_set(ICANON)

\* number of copies to the caller's buffer that have failed
Faults == Cardinality({i \in 1..Len(popped) : popped[i][2] = "fault"})

\* the results either_copyout can have
CopyoutResults == IF Faults < MaxFaults THEN {TRUE, FALSE} ELSE {TRUE}

\* a failed copy is reported as an error
FaultResult_Error(p) == -1

\* the value returned after either_copyout failed: the break leads to
\* return target - n
FaultResult(p) == target[p] - n[p]

\* the killed flag is not looked at
Cancelled_Never(p) == FALSE

\* myproc()->killed, tested before every sleep
Cancelled(p) == killed[p]

\* one pass through the body of the outer while loop, with the lock held
ReadIter(p) ==
  /\ pc[p] = "run"
  /\ lock = p
  /\ IF r = w
     THEN /\ IF Cancelled(p)
             THEN Return(p, -1, dst[p])
             ELSE /\ lock' = 0              \* sleep releases the lock
                  /\ pc' = [pc EXCEPT ![p] = "sleep"]
                  /\ last' = NoCall
                  /\ UNCHANGED <<n, target, dst>>
          /\ UNCHANGED <<r, popped>>
     ELSE LET c == buf[ReadSlot(r)] IN
          IF IsEof(c)
          THEN /\ r' = EofIndex(p)
               /\ popped' = IF r' = r THEN popped
                            ELSE Append(popped, <<c, "eof">>)
               /\ Return(p, target[p] - n[p], dst[p])
          ELSE \E ok \in CopyoutResults :
               IF ~ok
               THEN /\ r' = r + 1
                    /\ popped' = Append(popped, <<c, "fault">>)
                    /\ Return(p, FaultResult(p), dst[p])
               ELSE /\ r' = r + 1
                    /\ popped' = Append(popped, <<c, "copied">>)
                    /\ IF IsEol(c) \/ n[p] - 1 = 0
                       THEN Return(p, target[p] - (n[p] - 1),
                                   Append(dst[p], c))
                       ELSE /\ dst' = [dst EXCEPT ![p] = Append(@, c)]
                            /\ n' = [n EXCEPT ![p] = @ - 1]
                            /\ last' = NoCall
                            /\ UNCHANGED <<lock, pc, target>>
  /\ NoOutput
  /\ UNCHANGED <<buf, w, e, lflag, killed, fed, accepted>>

\* a runnable process returns from sleep: it re-acquires the lock
Resume(p) ==
  /\ pc[p] = "woken"
  /\ lock = 0
  /\ lock' = p
  /\ pc' = [pc EXCEPT ![p] = "run"]
  /\ last' = NoCall
  /\ NoOutput
  /\ UNCHANGED <<consVars, lflag, n, target, dst, killed, fed, accepted,
                 popped>>

\* a process inside consoleread is marked killed; if it sleeps it is made
\* runnable
Kill(p) ==
  /\ ~killed[p]
  /\ Cardinality({q \in Procs : killed[q]}) < MaxKills
  /\ pc[p] # "idle"
  /\ killed' = [killed EXCEPT ![p] = TRUE]
  /\ pc' = [pc EXCEPT ![p] = IF @ = "sleep" THEN "woken" ELSE @]
  /\ last' = NoCall
  /\ NoOutput
  /\ UNCHANGED <<consVars, lflag, lock, n, target, dst, fed, accepted,
                 popped>>

(* ---------------------------- consoleioctl ----------------------------- *)
\* TCSETA copies from the user address &cons.termios into the local pointer
\* termios_p: whether or not that copy succeeds, cons.termios is not written
SetFlags(arg) == lflag

\* the pending input is flushed
KeepsInput_Flush == buf' = buf /\ r' = e /\ w' = e /\ e' = e

\* no statement of consoleioctl assigns to cons.buf, cons.r, cons.w, cons.e
KeepsInput == UNCHANGED <<buf, r, w, e>>

\* the request is not checked
Recognised_Any(req) == TRUE

\* the request is one of the two the console knows
Recognised(req) == req = TCGETA \/ req = TCSETA

\* an unknown request returns before acquire(&cons.lock)
consoleioctl(req, arg, ok) ==
  /\ IF ~Recognised(req)
     THEN /\ last' = IoctlResult(req, {}, -1, {})
          /\ lflag' = lflag
     ELSE IF req = TCGETA
     THEN /\ lock = 0
          /\ last' = IoctlResult(req, {}, IF ok THEN 0 ELSE -1,
                                 IF ok THEN lflag ELSE {})
          /\ lflag' = lflag
     ELSE /\ lock = 0
          /\ last' = IoctlResult(req, arg, IF ok THEN 0 ELSE -1, {})
          /\ lflag' = SetFlags(arg)
  /\ KeepsInput
  /\ NoOutput
  /\ UNCHANGED <<lock, procVars, fed, accepted, popped>>

Ioctl == \E req \in Requests, arg \in Modes, ok \in BOOLEAN :
           consoleioctl(req, arg, ok)

(* --------------------------- specification ----------------------------- *)
Next ==
  \/ Intr
  \/ \E p \in Procs, cnt \in 0..MaxN : ReadCall(p, cnt)
  \/ \E p \in Procs : ReadIter(p)
  \/ \E p \in Procs : Resume(p)
  \/ \E p \in Procs : Kill(p)
  \/ Ioctl

Spec == Init /\ [][Next]_vars

\* a line is typed in full, then read: the buffer is large enough for the line
LineRead(line) ==
  /\ fed = Len(line)
  /\ \E p \in Procs, cnt \in 0..LineSize : ReadCall(p, cnt)

NextErase ==
  \/ IntrLine(FeedErase)
  \/ LineRead(FeedErase)
  \/ \E p \in Procs : ReadIter(p)

SpecErase == InitWith(LineSize) /\ [][NextErase]_vars

NextKill ==
  \/ IntrLine(FeedKill)
  \/ LineRead(FeedKill)
  \/ \E p \in Procs : ReadIter(p)

SpecKill == InitWith(LineSize) /\ [][NextKill]_vars

\* raw mode is asked for first: consoleioctl(TCSETA) with c_lflag = 0 has
\* returned 0 in the state consoleinit leaves, and nothing asks for another
\* mode afterwards
InitRaw == InitAfter(BufSize, IoctlResult(TCSETA, {}, 0, {}))

NextRaw ==
  \/ Intr
  \/ \E p \in Procs, cnt \in 0..MaxN : ReadCall(p, cnt)
  \/ \E p \in Procs : ReadIter(p)
  \/ \E p \in Procs : Resume(p)

SpecRaw == InitRaw /\ [][NextRaw]_vars

\* the uart delivers a character of the given set
IntrFrom(S) ==
  /\ fed < MaxInput
  /\ fed' = fed + 1
  /\ \E c \in S : consoleintr(c)

\* an ordinary character, the two that end a line, and the null character
LiveChars == {0, ChA, NL, CtrlD}

NextLive ==
  \/ IntrFrom(LiveChars)
  \/ \E p \in Procs, cnt \in 0..MaxN : ReadCall(p, cnt)
  \/ \E p \in Procs : ReadIter(p)
  \/ \E p \in Procs : Resume(p)
  \/ \E p \in Procs : Kill(p)
  \/ Ioctl

\* a process that can run does run: a runnable sleeper is scheduled when the
\* lock is free, and the holder of the lock goes on with its loop
ReaderFairness ==
  \A p \in Procs : WF_vars(Resume(p)) /\ WF_vars(ReadIter(p))

SpecFair == Init /\ [][NextLive]_vars /\ ReaderFairness

(* ------------------------------ claims --------------------------------- *)
\* the byte at the read index
AtHead == buf[ReadSlot(r)]

\* process p holds the lock inside the loop and the buffer is not empty:
\* its next step takes a byte
Pops(p) == pc[p] = "run" /\ lock = p /\ r # w

\* the step is a step of process p inside consoleread
StepOf(p) == pc'[p] # pc[p] \/ n'[p] # n[p] \/ r' # r

\* the step is a call of consoleintr
IntrStep == typed' # <<>>

IsSet(req, v) == v.call = "ioctl" /\ v.req = req /\ v.ret = 0

\* C1: whenever the console lock is free, read <= committed <= edit and
\* edit - read <= N.
C1_IndexInvariant ==
  lock = 0 => r <= w /\ w <= e /\ e - r <= INPUT_BUF

\* the buffer is full after bytes have been read from it
C1_Witness == lock = 0 /\ r > 0 /\ e - r = INPUT_BUF

\* C2: in canonical mode, after 'a', 'b', backspace, 'c', newline have been
\* typed into an empty buffer, a read call asking for at least 3 bytes
\* returns exactly 'a', 'c', newline.
C2_EraseBeforeRead ==
  ( /\ fed = Len(FeedErase)
    /\ is_set(ICANON)
    /\ last.call = "read"
    /\ last.cnt >= 3
    /\ Len(popped) = Len(last.out)        \* the first call that reads
    /\ Faults = 0 )
  => last.ret = 3 /\ last.out = <<ChA, ChC, NL>>

\* C3: in canonical mode, after "hello", kill-line, "hi", newline have been
\* typed into an empty buffer, a read call with a large enough count returns
\* exactly 'h', 'i', newline.
C3_KillBeforeRead ==
  ( /\ fed = Len(FeedKill)
    /\ is_set(ICANON)
    /\ last.call = "read"
    /\ last.cnt >= 3
    /\ Len(popped) = Len(last.out)
    /\ Faults = 0 )
  => last.ret = 3 /\ last.out = <<ChH, ChI, NL>>

\* C4: after control(SET, m) returns success the stored flags equal m, a
\* control(GET) that follows returns m, and the next character typed is
\* handled according to m.
C4_SetReplacesMode ==
  [][ /\ IsSet(TCSETA, last') => lflag' = last'.arg
      /\ IsSet(TCSETA, last) /\ IsSet(TCGETA, last') => last'.got = last.arg
      /\ IsSet(TCSETA, last) /\ IntrStep
           => (dumped' <=> (ICANON \in last.arg /\ typed'[1] = CtrlP))
    ]_vars

\* C5: in canonical mode, a read call whose first byte is the end-of-file
\* character returns 0 without error, copies nothing, and consumes the
\* character: the read index advances by exactly one.
C5_EofFirst ==
  [][ \A p \in Procs :
        (Pops(p) /\ IsEof(AtHead) /\ n[p] = target[p] /\ StepOf(p))
        => /\ last' = ReadResult(target[p], 0, <<>>)
           /\ r' = r + 1
           /\ pc'[p] = "idle"
           /\ lock' = 0
    ]_vars

\* a call that asked for bytes has just returned 0 by taking the
\* end-of-file character
C5_Witness ==
  /\ last.call = "read" /\ last.cnt >= 1 /\ last.ret = 0 /\ last.out = <<>>
  /\ popped # <<>>
  /\ popped[Len(popped)] = <<CtrlD, "eof">>

\* C6: in canonical mode, a read call that has transferred k >= 1 bytes and
\* then takes the end-of-file character returns k, does not copy the
\* character, and leaves it at the read index; it stays there until a call
\* takes it as its first byte, and a call that starts then does so, returns
\* 0 and consumes it.
C6_EofPushedBack ==
  [][ \A p \in Procs :
        /\ (Pops(p) /\ IsEof(AtHead) /\ n[p] < target[p] /\ StepOf(p))
           => /\ last' = ReadResult(target[p], target[p] - n[p], dst[p])
              /\ last'.ret >= 1
              /\ UNCHANGED <<buf, r, w, e>>
              /\ lock' = 0
        /\ (r # w /\ IsEof(AtHead) /\ r' # r)
           => \E q \in Procs : /\ Pops(q) /\ n[q] = target[q]
                               /\ last' = ReadResult(target[q], 0, <<>>)
                               /\ r' = r + 1
        /\ (r # w /\ IsEof(AtHead) /\ pc[p] = "idle" /\ pc'[p] = "run")
           => /\ Pops(p)' /\ n'[p] = target'[p] /\ IsEof(AtHead)'
    ]_vars

\* a call has just returned k >= 1 bytes, fewer than asked for and not a
\* whole line, because the end-of-file character came next: it is still
\* in the buffer
C6_Witness ==
  /\ last.call = "read" /\ last.ret >= 1 /\ last.ret < last.cnt
  /\ last.out[last.ret] # NL
  /\ popped[Len(popped)][2] = "copied"
  /\ lock = 0 /\ r # w /\ AtHead = CtrlD

RECURSIVE Bytes(_, _)
Bytes(q, fates) ==
  IF q = <<>> THEN <<>>
  ELSE (IF q[1][2] \in fates THEN <<q[1][1]>> ELSE <<>>) \o Bytes(Tail(q), fates)

Delivered == Bytes(popped, {"copied"})

\* the accepted bytes that have been taken, without the end-of-file
\* characters consumed as the first byte of a call
RECURSIVE Due(_)
Due(i) ==
  IF i = 0 THEN <<>>
  ELSE Due(i - 1) \o (IF popped[i][2] = "eof" THEN <<>> ELSE <<accepted[i]>>)

\* C8: with no copy faults, the bytes copied to readers, in the order they
\* were taken, are the bytes accepted, in the order they were accepted,
\* without the end-of-file characters consumed as the first byte of a
\* canonical read: each accepted byte is taken once, in order.
C8_Fifo ==
  Faults = 0 =>
    /\ Len(popped) <= Len(accepted)
    /\ lock = 0 => Len(popped) = r
    /\ \A i \in 1..Len(popped) :
         /\ popped[i][1] = accepted[i]
         /\ popped[i][2] = "eof" => accepted[i] = CtrlD
    /\ Delivered = Due(Len(popped))

\* more bytes than the buffer holds have been taken, one of them an
\* end-of-file character, and both processes are reading
C8_Witness ==
  /\ Faults = 0
  /\ Len(popped) > INPUT_BUF
  /\ \E i \in 1..Len(popped) : popped[i][2] = "eof"
  /\ \A p \in Procs : pc[p] # "idle"

\* the characters the line editor acts on
EditChars == {CtrlH, DEL, CtrlU, CtrlP}

\* C9: in canonical mode a character the line editor handles as an editing
\* command is never appended: the step does not store it and does not
\* increase edit or committed.
C9_EditCharNotStored ==
  [][ (IntrStep /\ is_set(ICANON) /\ typed'[1] \in EditChars)
      => buf' = buf /\ accepted' = accepted /\ e' <= e /\ w' <= w
    ]_vars

\* a visual erase occurs in the output
HasErase(out) ==
  \E i \in 1..(Len(out) - 2) : <<out[i], out[i+1], out[i+2]>> = consputc(BACKSPACE)

\* C10: a backspace typed in canonical mode while edit = committed leaves
\* read, committed and edit unchanged and emits no visual erase.
C10_EraseOnEmpty ==
  [][ (IntrStep /\ is_set(ICANON) /\ typed'[1] \in {CtrlH, DEL} /\ e = w)
      => UNCHANGED <<r, w, e>> /\ ~HasErase(uart')
    ]_vars

\* C11: the producer appends the character exactly when it is not 0 and
\* fewer than INPUT_BUF bytes lie between the read and the edit index; a
\* character that is 0 or meets a full buffer leaves the storage and the
\* three indices as they were, is not echoed, wakes no sleeper and gives no
\* caller a result
C11_DropLeavesNoTrace ==
  [][ IntrStep =>
        /\ (accepted' # accepted) <=> (typed'[1] # 0 /\ e - r < INPUT_BUF)
        /\ accepted' # accepted =>
             /\ accepted' = Append(accepted, Normal(typed'[1]))
             /\ buf' = [buf EXCEPT ![WriteSlot(e)] = Normal(typed'[1])]
             /\ e' = e + 1
        /\ accepted' = accepted =>
             /\ UNCHANGED <<buf, r, w, e>>
             /\ uart' = <<>>
             /\ pc' = pc
             /\ last' = NoCall ]_vars

\* a character other than 0 was dropped on a full buffer
C11_Witness ==
  /\ typed # <<>>
  /\ typed[1] # 0
  /\ uart = <<>>
  /\ e - r = INPUT_BUF
  /\ Len(accepted) = e

\* C12: a control request that is neither TCGETA nor TCSETA returns -1 and
\* leaves the mode, the buffer and the lock as they were; it does not take
\* the lock, so it returns even while a reader holds it
C12_UnknownRequest ==
  [][ (last'.call = "ioctl" /\ last'.req \notin {TCGETA, TCSETA}) =>
        /\ last'.ret = -1
        /\ UNCHANGED <<buf, r, w, e, lflag, lock, pc>> ]_vars

\* an unknown request has returned while a reader holds the lock
C12_Witness ==
  /\ last.call = "ioctl"
  /\ last.req \notin {TCGETA, TCSETA}
  /\ last.ret = -1
  /\ lock # 0

\* C13: a reader that finds the buffer empty (r = w) while its process is
\* killed returns -1 in that step with the lock released; it takes no byte,
\* the buffer and its indices are unchanged and the index invariant holds
\* in the state it leaves, where the lock is free for every other operation
C13_KilledReaderReturns ==
  [][ \A p \in Procs :
        (pc[p] = "run" /\ lock = p /\ r = w /\ killed[p] /\ StepOf(p)) =>
          /\ last' = ReadResult(target[p], -1, dst[p])
          /\ pc'[p] = "idle"
          /\ lock' = 0
          /\ UNCHANGED <<buf, r, w, e, popped>>
          /\ C1_IndexInvariant' ]_vars

\* a killed reader has returned -1 after it had transferred a byte, and the
\* other reader is still inside its call
C13_Witness ==
  /\ last.call = "read"
  /\ last.ret = -1
  /\ last.out # <<>>
  /\ lock = 0
  /\ \E p \in Procs : killed[p] /\ pc[p] = "idle"
  /\ \E q \in Procs : ~killed[q] /\ pc[q] \in {"sleep", "woken"}

LeftAtEof == last.call = "read" /\ r # w /\ AtHead = CtrlD

\* C16: no wakeup is lost. No reader sleeps while a committed byte is
\* unread; a reader made runnable while a byte is unread does not stay
\* blocked for ever, and the byte is taken (or a read returns leaving the
\* end-of-file character for the next call); a reader that wakes up and
\* finds r = w sleeps again without taking anything
C16_NoLostWakeup ==
  /\ [](\A p \in Procs : pc[p] = "sleep" => r = w)
  /\ [][ \A p \in Procs :
           (pc[p] = "run" /\ lock = p /\ r = w /\ ~killed[p] /\ StepOf(p)) =>
             /\ pc'[p] = "sleep"
             /\ lock' = 0
             /\ UNCHANGED <<buf, r, w, e, popped, n, target, dst>> ]_vars
  /\ \A p \in Procs :
       []<>(~(pc[p] \in {"sleep", "woken"} /\ r # w))
  /\ \A p \in Procs : \A k \in 0..MaxInput :
       (pc[p] = "woken" /\ r # w /\ Len(popped) = k)
         ~> (Len(popped) > k \/ LeftAtEof)

\* both readers slept and were made runnable by an accepted character that
\* is still unread, after an earlier byte had been taken
C16_Witness ==
  \E p, q \in Procs :
    /\ pc[p] = "woken"
    /\ r # w
    /\ pc[q] = "woken"
    /\ p # q
    /\ popped # <<>>

\* C17: a TCGETA or TCSETA request, whether it succeeds or fails, leaves the
\* storage and the read, committed and edit indices unchanged: bytes typed
\* before it are neither edited again nor discarded, and the readers'
\* transfers in progress are not touched
C17_IoctlKeepsBuffer ==
  [][ (last'.call = "ioctl" /\ last'.req \in {TCGETA, TCSETA}) =>
        UNCHANGED <<buf, r, w, e, accepted, popped, n, target, dst>> ]_vars

\* a TCSETA request has succeeded while typed bytes wait in the buffer
C17_Witness ==
  /\ last.call = "ioctl"
  /\ last.req = TCSETA
  /\ last.ret = 0
  /\ r > 0
  /\ w - r = INPUT_BUF

\* C18: when a copy to the caller's buffer fails the read stops in that
\* step, releases the lock and returns the number of bytes it had copied
\* before the failure, which may be 0, and never an error code
C18_FaultReturnsCount ==
  [][ \A p \in Procs :
        (Pops(p) /\ StepOf(p) /\ Faults' > Faults) =>
          /\ last'.call = "read"
          /\ last'.ret = Len(dst[p])
          /\ last'.ret >= 0
          /\ last'.ret < target[p]
          /\ last'.out = dst[p]
          /\ pc'[p] = "idle"
          /\ lock' = 0 ]_vars

\* a read of two bytes has returned 1 because its second copy failed
C18_Witness ==
  /\ last.call = "read"
  /\ last.cnt = 2
  /\ last.ret = 1
  /\ Len(popped) = 2
  /\ popped[1][2] = "copied"
  /\ popped[2][2] = "fault"
  /\ lock = 0

\* C19: lock discipline. The lock is free or held by exactly one reader,
\* which is then inside the loop of consoleread; a reader that sleeps or
\* waits to resume, or that is outside the call, does not hold it. Every
\* return of a read, and every step of the producer and of a TCGETA or
\* TCSETA request, starts from a free lock where it acquires it and leaves
\* the lock free
C19_LockDiscipline ==
  /\ [](/\ lock \in {0} \cup Procs
        /\ \A p \in Procs : (lock = p) <=> (pc[p] = "run")
        /\ Cardinality({p \in Procs : pc[p] = "run"}) <= 1)
  /\ [][ /\ last'.call = "read" => lock' = 0
         /\ IntrStep => lock = 0 /\ lock' = 0
         /\ (last'.call = "ioctl" /\ last'.req \in {TCGETA, TCSETA})
              => lock = 0 /\ lock' = 0
         /\ \A p \in Procs :
              (pc[p] = "run" /\ pc'[p] \in {"sleep", "idle"})
                => lock = p /\ lock' = 0 ]_vars

\* a reader holds the lock inside its loop while the other reader, killed
\* in its sleep, waits for the lock to resume
C19_Witness ==
  \E p, q \in Procs :
    /\ lock = p
    /\ pc[p] = "run"
    /\ n[p] < target[p]
    /\ pc[q] = "woken"
    /\ killed[q]

\* C20: no committed byte is lost by a read: every byte a read has removed
\* from the buffer was copied to the caller, or is the end-of-file character
\* consumed as the first byte of a call; a failed copy does not discard the
\* byte it was about to copy
C20_NoByteLost ==
  \A i \in 1..Len(popped) :
    \/ popped[i][2] = "copied"
    \/ popped[i][2] = "eof" /\ popped[i][1] = CtrlD

====
